---- MODULE Spec2Model ----
(***************************************************************************)
(* Model of src/src/resolvers/Mutation.js: the GraphQL mutation resolvers  *)
(* of the shop backend.  Every resolver is an async function; it runs      *)
(* synchronously up to an await, and each await (a store call, the payment *)
(* gateway, the mailer, bcrypt) resolves in a later step, so the steps of  *)
(* concurrent requests interleave at the awaits.                           *)
(*                                                                         *)
(* The store (ctx.db), the gateway (stripe) and the mailer are external:   *)
(* a call on them either takes effect atomically and resolves, or rejects. *)
(***************************************************************************)
EXTENDS Integers, Sequences, FiniteSets, TLC

\* ------------------------------------------------------------------ bounds
\* Number of requests the transport layer hands to the resolvers.
MaxReq == 2
\* Number of clock advances (of one hour each).
MaxTicks == 3

Reqs == 1..MaxReq

\* ------------------------------------------------------- program constants
\* resetTokenExpiry = Date.now() + 3600000             (requestReset)
RESET_EXPIRY_MS == 3600000
\* resetTokenExpiry_gte: Date.now() - 3600000            (resetPassword)
RESET_WINDOW_MS == 3600000
\* resetToken: null, resetTokenExpiry: null
NULL == -1
\* one clock advance: one hour
TickMs == 60 * 60 * 1000

\* ------------------------------------------------------------------ inputs
NoUser == 0                       \* ctx.request.userId is undefined
ShopUsers == {1, 2}               \* ids of the users of the shop scenario
ItemIds == {1, 2}                 \* ids of the catalog items
\* email strings, as sequences of character codes: "A", "a", "b"
Emails == {<<65>>, <<97>>, <<98>>}
Passwords == {"pw1", "pw2"}
\* what the gateway may report above the requested amount (rounding drift)
Drift == {0, 1}

VARIABLES
    users,       \* store: User rows, id -> record
    items,       \* store: Item rows (catalog), id -> record
    cartItems,   \* store: set of CartItem rows
    orders,      \* store: set of Order rows (with their OrderItems)
    charges,     \* payment gateway: the charges it has captured
    nextId,      \* next fresh identifier (CartItem ids, reset tokens)
    now,         \* Date.now()
    op,          \* per request: the resolver it runs
    args,        \* per request: args and ctx.request.userId
    pc,          \* per request: the await it is suspended at
    local,       \* per request: the resolver's local variables
    result,      \* per request: returned value or thrown error
    cookie       \* per request: the `token` cookie set on ctx.response

store == <<users, items, cartItems, orders>>
reqv == <<op, args, pc, local, result, cookie>>
vars == <<users, items, cartItems, orders, charges, nextId, now,
          op, args, pc, local, result, cookie>>

\* ctx.response: nothing set, cookie("token", jwt.sign({ userId })), clearCookie("token")
NoCookie == [state |-> "none", userId |-> NoUser]
TokenCookie(u) == [state |-> "set", userId |-> u]
ClearedCookie == [state |-> "cleared", userId |-> NoUser]
NoResult == [kind |-> "none"]
NoLocal == [none |-> TRUE]

Thrown(msg) == [kind |-> "error", message |-> msg]
Returned(v) == [kind |-> "value", value |-> v]

\* -------------------------------------------------------------- the catalog
InitItems ==
    (1 :> [id |-> 1, title |-> "shoes", price |-> 2, description |-> "d1",
           image |-> "s.jpg", largeImage |-> "S.jpg"]) @@
    (2 :> [id |-> 2, title |-> "hat", price |-> 3, description |-> "d2",
           image |-> "h.jpg", largeImage |-> "H.jpg"])

\* ------------------------------------------------------------ pure helpers
\* the rows of a finite set S of records with an id, in order of id
RECURSIVE SortById(_)
SortById(S) ==
    IF S = {} THEN <<>>
    ELSE LET m == CHOOSE r \in S : \A s \in S : r.id <= s.id
         IN <<m>> \o SortById(S \ {m})

SeqMap(F(_), s) == [k \in 1..Len(s) |-> F(s[k])]

\* ctx.db.query.cartItems({ where: { user: {id}, item: {id} } })
QueryCartItems(u, i) ==
    SortById({c \in cartItems : c.user = u /\ c.item = i})

\* user.cart with `{ id quantity item { title price id description image largeImage } }`
CartLine(c) == [id |-> c.id, quantity |-> c.quantity, item |-> items[c.item]]
QueryUserCart(u) ==
    SeqMap(CartLine, SortById({c \in cartItems : c.user = u}))

\* user.cart.reduce((item1, item2) => item1 + item2.item.price * item2.quantity, 0)
RECURSIVE Reduce(_, _)
Reduce(cart, acc) ==
    IF cart = <<>> THEN acc
    ELSE Reduce(Tail(cart), acc + Head(cart).item.price * Head(cart).quantity)
Amount(cart) == Reduce(cart, 0)

\* (variant: the quantity of the cart line is not copied)
OrderItemUnitQuantity(line, u) ==
    [title |-> line.item.title, price |-> line.item.price,
     description |-> line.item.description, image |-> line.item.image,
     largeImage |-> line.item.largeImage,
     quantity |-> 1, user |-> u]

\* (variant: the identifier of the live Item stays in the snapshot)
OrderItemKeepsId(line, u) ==
    [id |-> line.item.id,
     title |-> line.item.title, price |-> line.item.price,
     description |-> line.item.description, image |-> line.item.image,
     largeImage |-> line.item.largeImage,
     quantity |-> line.quantity, user |-> u]

\* { ...item.item, quantity, user: {connect} }; delete orderItem.id
OrderItem(line, u) ==
    [title |-> line.item.title, price |-> line.item.price,
     description |-> line.item.description, image |-> line.item.image,
     largeImage |-> line.item.largeImage,
     quantity |-> line.quantity, user |-> u]
OrderItems(cart, u) == [k \in 1..Len(cart) |-> OrderItem(cart[k], u)]

CartItemIds(cart) == {cart[k].id : k \in 1..Len(cart)}

\* ------------------------------------------------------------------- steps
Goto(p, l) == pc' = [pc EXCEPT ![p] = l]
SetLocal(p, v) == local' = [local EXCEPT ![p] = v]
\* the resolver returns or throws: its locals are gone
Finish(p, r) == /\ pc' = [pc EXCEPT ![p] = IF r.kind = "error" THEN "failed" ELSE "done"]
                /\ result' = [result EXCEPT ![p] = r]
                /\ local' = [local EXCEPT ![p] = NoLocal]

\* The transport layer hands over the requests one after another.
CanStart(p) == /\ pc[p] = "idle"
               /\ \A q \in Reqs : q < p => pc[q] # "idle"

Begin(p, name, a) == /\ CanStart(p)
                     /\ op' = [op EXCEPT ![p] = name]
                     /\ args' = [args EXCEPT ![p] = a]

\* ---------------------------------------------------------------- addToCart
\* The resolver runs to its first await and the store answers the cartItems
\* query (nothing of the request is visible to the others before that); the
\* update or the create is then issued.
AddToCartQuery(p) ==
    \E u \in ShopUsers \cup {NoUser}, i \in ItemIds, answered \in BOOLEAN :
      /\ Begin(p, "addToCart", [userId |-> u, id |-> i])
      /\ IF u = NoUser
           THEN Finish(p, Thrown("You must be signed in soooon"))
           ELSE IF ~answered
             THEN Finish(p, Thrown("StoreError"))
             ELSE LET found == QueryCartItems(u, i)
                  IN /\ SetLocal(p, [found |-> found])
                     /\ Goto(p, IF found # <<>> THEN "ac_update" ELSE "ac_create")
                     /\ UNCHANGED result
      /\ UNCHANGED <<store, charges, nextId, now, cookie>>

\* (variant: the quantity is written back without the increment)
QuantityNotIncremented(existing) == existing.quantity
\* data: { quantity: existingCartItem.quantity + 1 }
IncrementedQuantity(existing) == existing.quantity + 1

\* (variant: the store increments the quantity the row has when the update is applied)
AddToCartUpdateAtomic(p) ==
    /\ pc[p] = "ac_update"
    /\ LET existing == Head(local[p].found)
           row == {c \in cartItems : c.id = existing.id}
       IN IF row = {}
            THEN /\ Finish(p, Thrown("StoreError"))
                 /\ UNCHANGED cartItems
            ELSE LET new == [(CHOOSE c \in row : TRUE) EXCEPT !.quantity = @ + 1]
                 IN /\ cartItems' = (cartItems \ row) \cup {new}
                    /\ Finish(p, Returned(new))
    /\ UNCHANGED <<users, items, orders, charges, nextId, now, op, args, cookie>>

\* updateCartItem({ where: {id}, data: { quantity: existing.quantity + 1 } })
AddToCartUpdate(p) ==
    /\ pc[p] = "ac_update"
    /\ LET existing == Head(local[p].found)
           row == {c \in cartItems : c.id = existing.id}
       IN IF row = {}
            THEN /\ Finish(p, Thrown("StoreError"))
                 /\ UNCHANGED cartItems
            ELSE LET new == [(CHOOSE c \in row : TRUE) EXCEPT
                               !.quantity = IncrementedQuantity(existing)]
                 IN /\ cartItems' = (cartItems \ row) \cup {new}
                    /\ Finish(p, Returned(new))
    /\ UNCHANGED <<users, items, orders, charges, nextId, now, op, args, cookie>>

\* createCartItem({ data: { user: {connect}, item: {connect} } })
DEFAULT_QUANTITY == 1
AddToCartCreate(p) ==
    /\ pc[p] = "ac_create"
    /\ LET new == [id |-> nextId, user |-> args[p].userId, item |-> args[p].id,
                   quantity |-> DEFAULT_QUANTITY]
       IN /\ cartItems' = cartItems \cup {new}
          /\ Finish(p, Returned(new))
    /\ nextId' = nextId + 1
    /\ UNCHANGED <<users, items, orders, charges, now, op, args, cookie>>

\* ----------------------------------------------------------- removeFromCart
\* ctx.db.query.cartItem({ where: { id } }, `{ id user { id } }`)
QueryCartItem(id) == SortById({c \in cartItems : c.id = id})

\* (variant: the owner is not compared)
OwnsCartItemUnchecked(cartItem, userId) == TRUE
\* cartItem.user.id !== ctx.request.userId
OwnsCartItem(cartItem, userId) == cartItem.user = userId

\* the cartItem query resolves; existence and owner are checked; the delete is issued
RemoveFromCartQuery(p) ==
    \E u \in ShopUsers \cup {NoUser}, id \in 1..nextId, answered \in BOOLEAN :
      /\ Begin(p, "removeFromCart", [userId |-> u, id |-> id])
      /\ IF ~answered
           THEN Finish(p, Thrown("StoreError"))
           ELSE LET found == QueryCartItem(id)
                IN IF found = <<>>
                     THEN Finish(p, Thrown("No CartItem Found!"))
                     ELSE IF ~OwnsCartItem(Head(found), u)
                       THEN Finish(p, Thrown("Cheatin huhhhh"))
                       ELSE /\ Goto(p, "rc_delete")
                            /\ UNCHANGED <<result, local>>
      /\ UNCHANGED <<store, charges, nextId, now, cookie>>

\* deleteCartItem({ where: { id } }) resolves
RemoveFromCartDelete(p) ==
    /\ pc[p] = "rc_delete"
    /\ LET row == {c \in cartItems : c.id = args[p].id}
       IN IF row = {}
            THEN /\ Finish(p, Thrown("StoreError"))
                 /\ UNCHANGED cartItems
            ELSE /\ cartItems' = cartItems \ row
                 /\ Finish(p, Returned(CHOOSE c \in row : TRUE))
    /\ UNCHANGED <<users, items, orders, charges, nextId, now, op, args, cookie>>

\* -------------------------------------------------------------- createOrder
\* The resolver runs to its first await and the store answers the user query
\* with the cart; amount is computed and the charge is requested.
CreateOrderQuery(p) ==
    \E u \in ShopUsers \cup {NoUser}, answered \in BOOLEAN :
      /\ Begin(p, "createOrder", [userId |-> u])
      /\ IF u = NoUser
           THEN Finish(p, Thrown("You must be signed in to complete this order."))
           ELSE IF ~answered
             THEN Finish(p, Thrown("StoreError"))
             ELSE IF \E c \in cartItems : c.user = u /\ c.item \notin DOMAIN items
               \* item2.item is null for a deleted Item: item2.item.price throws
               THEN Finish(p, Thrown("TypeError"))
               ELSE LET cart == QueryUserCart(u)
                    IN /\ SetLocal(p, [cart |-> cart, amount |-> Amount(cart)])
                       /\ Goto(p, "co_charge")
                       /\ UNCHANGED result
      /\ UNCHANGED <<store, charges, nextId, now, cookie>>

\* stripe.charges.create resolves: the gateway captured the charge
\* (variant: total taken from the locally computed amount)
OrderDataLocalTotal(p, charge) ==
    [total |-> local[p].amount, charge |-> charge.id,
     items |-> OrderItems(local[p].cart, args[p].userId),
     user |-> args[p].userId]

OrderData(p, charge) ==
    [total |-> charge.amount, charge |-> charge.id,
     items |-> OrderItems(local[p].cart, args[p].userId),
     user |-> args[p].userId]

\* (variant: the cart is cleared as soon as the charge is captured)
ChargeCapturedClearsCart(p) ==
    /\ pc[p] = "co_charge"
    /\ \E d \in Drift :
         LET charge == [id |-> Cardinality(charges) + 1, amount |-> local[p].amount + d]
         IN /\ charges' = charges \cup {charge}
            /\ SetLocal(p, [cart |-> local[p].cart, amount |-> local[p].amount,
                            charge |-> charge, data |-> OrderData(p, charge)])
    /\ cartItems' = {c \in cartItems : c.id \notin CartItemIds(local[p].cart)}
    /\ Goto(p, "co_persist")
    /\ UNCHANGED <<users, items, orders, nextId, now, op, args, result, cookie>>

ChargeCaptured(p) ==
    /\ pc[p] = "co_charge"
    /\ \E d \in Drift :
         LET charge == [id |-> Cardinality(charges) + 1, amount |-> local[p].amount + d]
         IN /\ charges' = charges \cup {charge}
            /\ SetLocal(p, [cart |-> local[p].cart, amount |-> local[p].amount,
                            charge |-> charge, data |-> OrderData(p, charge)])
    /\ Goto(p, "co_persist")
    /\ UNCHANGED <<store, nextId, now, op, args, result, cookie>>

\* stripe.charges.create rejects: the error propagates out of createOrder
\* (variant: the rejection is caught and the order is created all the same)
ChargeRejectedSwallowed(p) ==
    /\ pc[p] = "co_charge"
    /\ LET charge == [id |-> 0, amount |-> local[p].amount]
       IN SetLocal(p, [cart |-> local[p].cart, amount |-> local[p].amount,
                       charge |-> charge, data |-> OrderData(p, charge)])
    /\ Goto(p, "co_persist")
    /\ UNCHANGED <<store, charges, nextId, now, op, args, result, cookie>>

\* (variant: the cart was cleared before the charge was requested)
ChargeRejectedCartCleared(p) ==
    /\ pc[p] = "co_charge"
    /\ cartItems' = {c \in cartItems : c.id \notin CartItemIds(local[p].cart)}
    /\ Finish(p, Thrown("PaymentError"))
    /\ UNCHANGED <<users, items, orders, charges, nextId, now, op, args, cookie>>

ChargeRejected(p) ==
    /\ pc[p] = "co_charge"
    /\ Finish(p, Thrown("PaymentError"))
    /\ UNCHANGED <<store, charges, nextId, now, op, args, cookie>>

\* ctx.db.mutation.createOrder resolves; deleteManyCartItems is issued
CreateOrderPersist(p) ==
    /\ pc[p] = "co_persist"
    /\ LET d == local[p].data
           order == [id |-> Cardinality(orders) + 1, total |-> d.total, charge |-> d.charge,
                     items |-> d.items, user |-> d.user]
       IN /\ orders' = orders \cup {order}
          /\ SetLocal(p, [cart |-> local[p].cart, amount |-> local[p].amount,
                          charge |-> local[p].charge, order |-> order,
                          cartItemIds |-> CartItemIds(local[p].cart)])
    /\ Goto(p, "co_delete")
    /\ UNCHANGED <<users, items, cartItems, charges, nextId, now, op, args, result, cookie>>

\* deleteManyCartItems({ where: { id_in: cartItemIds } }) resolves; return order
CreateOrderDelete(p) ==
    /\ pc[p] = "co_delete"
    /\ cartItems' = {c \in cartItems : c.id \notin local[p].cartItemIds}
    /\ Finish(p, Returned(local[p].order))
    /\ UNCHANGED <<users, items, orders, charges, nextId, now, op, args, cookie>>

\* ------------------------------------------------------ updateItem, deleteItem
\* the user each catalog Item belongs to (item.user.id)
ItemOwner == (1 :> 1) @@ (2 :> 2)
\* the fields a caller may send to updateItem besides the id
ItemUpdates == { [price |-> 5], [title |-> "boots", price |-> 5] }

\* the Item row with the fields of `updates` replaced
Updated(item, updates) ==
    [f \in DOMAIN item |-> IF f \in DOMAIN updates THEN updates[f] ELSE item[f]]

\* updateItem({ data: updates, where: { id } }) resolves
UpdateItem(p) ==
    \E id \in ItemIds, updates \in ItemUpdates, answered \in BOOLEAN :
      /\ Begin(p, "updateItem", [id |-> id, updates |-> updates])
      /\ IF ~answered \/ id \notin DOMAIN items
           THEN /\ Finish(p, Thrown("StoreError"))
                /\ UNCHANGED items
           ELSE /\ items' = [items EXCEPT ![id] = Updated(items[id], updates)]
                /\ Finish(p, Returned(items'[id]))
      /\ UNCHANGED <<users, cartItems, orders, charges, nextId, now, cookie>>

\* ["ADMIN", "ITEMDELETE"].includes(permission)
MayDeleteItems(user) == user.permissions \cap {"ADMIN", "ITEMDELETE"} # {}

\* the item query resolves; owner and permissions are checked; the delete is issued
DeleteItemQuery(p) ==
    \E u \in ShopUsers \cup {NoUser}, id \in ItemIds, answered \in BOOLEAN :
      /\ Begin(p, "deleteItem", [userId |-> u, id |-> id])
      /\ IF ~answered
           THEN Finish(p, Thrown("StoreError"))
           ELSE IF id \notin DOMAIN items \/ u = NoUser
             \* item is null, or ctx.request.user is undefined
             THEN Finish(p, Thrown("TypeError"))
             ELSE IF ItemOwner[id] # u /\ ~MayDeleteItems(users[u])
               THEN Finish(p, Thrown("You don't have permission to do that!"))
               ELSE /\ Goto(p, "di_delete")
                    /\ UNCHANGED <<result, local>>
      /\ UNCHANGED <<store, charges, nextId, now, cookie>>

\* deleteItem({ where }) resolves; cart rows of the Item keep a null item
DeleteItemDelete(p) ==
    /\ pc[p] = "di_delete"
    /\ LET id == args[p].id
       IN IF id \notin DOMAIN items
            THEN /\ Finish(p, Thrown("StoreError"))
                 /\ UNCHANGED items
            ELSE /\ items' = [i \in DOMAIN items \ {id} |-> items[i]]
                 /\ Finish(p, Returned(items[id]))
    /\ UNCHANGED <<users, cartItems, orders, charges, nextId, now, op, args, cookie>>

\* ------------------------------------------------------------ credentials
\* String.prototype.toLowerCase on the character codes
ToLowerCase(s) == [k \in 1..Len(s) |-> IF s[k] \in 65..90 THEN s[k] + 32 ELSE s[k]]

\* bcrypt.hash(password, 10) and bcrypt.compare(password, hash)
Hash(password) == <<"bcrypt", 10, password>>
\* (variant: every password verifies)
CompareAlwaysValid(password, hash) == TRUE
Compare(password, hash) == hash = Hash(password)

\* ctx.db.query.user({ where: { email } }): the rows with exactly that email
QueryUserByEmail(email) == {k \in 1..Len(users) : users[k].email = email}

\* ctx.db.query.users({ where: { resetToken, resetTokenExpiry_gte } })
QueryUsersByToken(token, gte) ==
    {k \in 1..Len(users) : /\ users[k].resetToken # NULL
                           /\ users[k].resetToken = token
                           /\ users[k].resetTokenExpiry # NULL
                           /\ users[k].resetTokenExpiry >= gte}

Min(S) == CHOOSE x \in S : \A y \in S : x <= y

\* ------------------------------------------------------------------- signup
\* email lowercased, password hashed, createUser issued
Signup(p) ==
    \E email \in Emails, password \in Passwords :
      /\ Begin(p, "signup", [email |-> email, password |-> password])
      /\ SetLocal(p, [data |-> [email |-> ToLowerCase(email),
                                password |-> Hash(password),
                                permissions |-> {"USER"}]])
      /\ Goto(p, "su_create")
      /\ UNCHANGED <<store, charges, nextId, now, result, cookie>>

\* createUser resolves (email is unique in the store); the cookie is set
SignupCreate(p) ==
    /\ pc[p] = "su_create"
    /\ LET d == local[p].data
           user == [id |-> Len(users) + 1, email |-> d.email, password |-> d.password,
                    permissions |-> d.permissions,
                    resetToken |-> NULL, resetTokenExpiry |-> NULL]
       IN IF QueryUserByEmail(d.email) # {}
            THEN /\ Finish(p, Thrown("StoreError"))
                 /\ UNCHANGED <<users, cookie>>
            ELSE /\ users' = Append(users, user)
                 /\ cookie' = [cookie EXCEPT ![p] = TokenCookie(user.id)]
                 /\ Finish(p, Returned(user))
    /\ UNCHANGED <<items, cartItems, orders, charges, nextId, now, op, args>>

\* ------------------------------------------------------------------- signin
\* the user query resolves, bcrypt.compare resolves, the cookie is set
Signin(p) ==
    \E email \in Emails, password \in Passwords, answered \in BOOLEAN :
      /\ Begin(p, "signin", [email |-> email, password |-> password])
      /\ LET found == QueryUserByEmail(email)
         IN IF ~answered
              THEN Finish(p, Thrown("StoreError")) /\ UNCHANGED cookie
              ELSE IF found = {}
                THEN Finish(p, Thrown("No such user found for email")) /\ UNCHANGED cookie
                ELSE LET user == users[Min(found)]
                     IN IF ~Compare(password, user.password)
                          THEN Finish(p, Thrown("Invalid Password!")) /\ UNCHANGED cookie
                          ELSE /\ cookie' = [cookie EXCEPT ![p] = TokenCookie(user.id)]
                               /\ Finish(p, Returned(user))
      /\ UNCHANGED <<store, charges, nextId, now>>

\* ------------------------------------------------------------------ signout
Signout(p) ==
    /\ Begin(p, "signout", NoLocal)
    /\ cookie' = [cookie EXCEPT ![p] = ClearedCookie]
    /\ Finish(p, Returned([message |-> "Goodbye!"]))
    /\ UNCHANGED <<store, charges, nextId, now>>

\* ------------------------------------------------------------- requestReset
\* the user query resolves; randomBytes is awaited
RequestResetQuery(p) ==
    \E email \in Emails, answered \in BOOLEAN :
      /\ Begin(p, "requestReset", [email |-> email])
      /\ IF ~answered
           THEN Finish(p, Thrown("StoreError"))
           ELSE IF QueryUserByEmail(email) = {}
             THEN Finish(p, Thrown("No such user found for email"))
             ELSE /\ Goto(p, "rr_random")
                  /\ UNCHANGED <<result, local>>
      /\ UNCHANGED <<store, charges, nextId, now, cookie>>

\* randomBytes resolves with a fresh token; the expiry is computed; updateUser issued
RequestResetRandom(p) ==
    /\ pc[p] = "rr_random"
    /\ SetLocal(p, [resetToken |-> nextId, resetTokenExpiry |-> now + RESET_EXPIRY_MS])
    /\ nextId' = nextId + 1
    /\ Goto(p, "rr_update")
    /\ UNCHANGED <<store, charges, now, op, args, result, cookie>>

\* updateUser({ where: { email }, data: { resetToken, resetTokenExpiry } }) resolves
RequestResetUpdate(p) ==
    /\ pc[p] = "rr_update"
    /\ users' = [k \in 1..Len(users) |->
                   IF users[k].email = args[p].email
                     THEN [users[k] EXCEPT !.resetToken = local[p].resetToken,
                                           !.resetTokenExpiry = local[p].resetTokenExpiry]
                     ELSE users[k]]
    /\ Goto(p, "rr_mail")
    /\ UNCHANGED <<items, cartItems, orders, charges, nextId, now,
                   op, args, local, result, cookie>>

\* transport.sendMail resolves
RequestResetMail(p) ==
    /\ pc[p] = "rr_mail"
    /\ Finish(p, Returned([message |-> "Thanks"]))
    /\ UNCHANGED <<store, charges, nextId, now, op, args, cookie>>

\* transport.sendMail rejects: the error propagates out of requestReset
MailRejects(p) ==
    /\ pc[p] = "rr_mail"
    /\ Finish(p, Thrown("MailError"))
    /\ UNCHANGED <<store, charges, nextId, now, op, args, cookie>>

\* ------------------------------------------------------------ resetPassword
\* the confirmation is compared; the users query resolves; the password is hashed
ResetPasswordQuery(p) ==
    \E token \in 1..nextId, password \in Passwords, confirmPassword \in Passwords,
       answered \in BOOLEAN :
      /\ Begin(p, "resetPassword", [resetToken |-> token, password |-> password,
                                    confirmPassword |-> confirmPassword])
      /\ IF password # confirmPassword
           THEN Finish(p, Thrown("Yo Password don't match!"))
           ELSE IF ~answered
             THEN Finish(p, Thrown("StoreError"))
             ELSE LET found == QueryUsersByToken(token, now - RESET_WINDOW_MS)
                  IN IF found = {}
                       THEN Finish(p, Thrown("This token is either invalid or expired!"))
                       ELSE /\ SetLocal(p, [user |-> users[Min(found)],
                                            password |-> Hash(password)])
                            /\ Goto(p, "rp_update")
                            /\ UNCHANGED result
      /\ UNCHANGED <<store, charges, nextId, now, cookie>>

\* updateUser({ where: { email }, data: { password, resetToken: null,
\* resetTokenExpiry: null } }) resolves; the cookie is set
\* (variant: only the password is written, the token stays on the row)
ResetPasswordDataKeepsToken(p) ==
    [password |-> local[p].password, resetToken |-> local[p].user.resetToken,
     resetTokenExpiry |-> local[p].user.resetTokenExpiry]

ResetPasswordData(p) ==
    [password |-> local[p].password, resetToken |-> NULL, resetTokenExpiry |-> NULL]

ResetPasswordUpdate(p) ==
    /\ pc[p] = "rp_update"
    /\ LET d == ResetPasswordData(p)
           k == Min(QueryUserByEmail(local[p].user.email))
           updatedUser == [users[k] EXCEPT !.password = d.password,
                                           !.resetToken = d.resetToken,
                                           !.resetTokenExpiry = d.resetTokenExpiry]
       IN /\ users' = [users EXCEPT ![k] = updatedUser]
          /\ cookie' = [cookie EXCEPT ![p] = TokenCookie(updatedUser.id)]
          /\ Finish(p, Returned(updatedUser))
    /\ UNCHANGED <<items, cartItems, orders, charges, nextId, now, op, args>>

\* -------------------------------------------------------------------- clock
Tick ==
    /\ now < MaxTicks * TickMs
    /\ now' = now + TickMs
    /\ UNCHANGED <<store, charges, nextId, reqv>>

\* -------------------------------------------------------- updatePermissions
\* permission sets a caller may send as args.permissions
PermissionSets == { {}, {"USER"}, {"ADMIN"}, {"USER", "PERMISSIONUPDATE"} }

\* hasPermission(user, permissionsNeeded): passes when the user has one of them
HasPermission(user, needed) == user.permissions \cap needed # {}

\* (variant: USER is accepted as a sufficient permission)
RequiredToUpdateOrUser == {"ADMIN", "PERMISSIONUPDATE", "USER"}
\* hasPermission(currentUser, ["ADMIN", "PERMISSIONUPDATE"])
RequiredToUpdate == {"ADMIN", "PERMISSIONUPDATE"}

\* the login check, the currentUser query resolves, hasPermission, updateUser issued
UpdatePermissionsQuery(p) ==
    \E u \in (1..Len(users)) \cup {NoUser}, target \in 1..Len(users),
       permissions \in PermissionSets, answered \in BOOLEAN :
      /\ Begin(p, "updatePermissions",
               [userId |-> u, target |-> target, permissions |-> permissions])
      /\ IF u = NoUser
           THEN Finish(p, Thrown("You must be logged in!"))
           ELSE IF ~answered
             THEN Finish(p, Thrown("StoreError"))
             ELSE IF ~HasPermission(users[u], RequiredToUpdate)
               THEN Finish(p, Thrown("You do not have sufficient permissions"))
               ELSE /\ Goto(p, "up_update")
                    /\ UNCHANGED <<result, local>>
      /\ UNCHANGED <<store, charges, nextId, now, cookie>>

\* updateUser({ data: { permissions: { set: args.permissions } }, where: { id } })
UpdatePermissionsUpdate(p) ==
    /\ pc[p] = "up_update"
    /\ LET k == args[p].target
           updated == [users[k] EXCEPT !.permissions = args[p].permissions]
       IN /\ users' = [users EXCEPT ![k] = updated]
          /\ Finish(p, Returned(updated))
    /\ UNCHANGED <<items, cartItems, orders, charges, nextId, now, op, args, cookie>>

\* ------------------------------------------------------ failures and crashes
\* the awaits on a store mutation; a rejected store call throws out of the resolver
StoreAwaits == {"ac_update", "ac_create", "rc_delete", "co_persist", "co_delete",
                "di_delete",
                "su_create", "rr_update", "rp_update", "up_update"}
InFlight(p) == pc[p] \notin {"idle", "done", "failed", "crashed"}

StoreRejects(p) ==
    /\ pc[p] \in StoreAwaits
    /\ Finish(p, Thrown("StoreError"))
    /\ UNCHANGED <<store, charges, nextId, now, op, args, cookie>>

\* the server process dies: every request in flight is abandoned where it is
Crash ==
    /\ \E p \in Reqs : InFlight(p)
    /\ pc' = [p \in Reqs |-> IF InFlight(p) THEN "crashed" ELSE pc[p]]
    /\ local' = [p \in Reqs |-> NoLocal]
    /\ UNCHANGED <<store, charges, nextId, now, op, args, result, cookie>>

\* ------------------------------------------------------------ specification
InitReqs ==
    /\ op = [p \in Reqs |-> "none"]
    /\ args = [p \in Reqs |-> NoLocal]
    /\ pc = [p \in Reqs |-> "idle"]
    /\ local = [p \in Reqs |-> NoLocal]
    /\ result = [p \in Reqs |-> NoResult]
    /\ cookie = [p \in Reqs |-> NoCookie]

\* The store outlives the requests: the shop starts with its catalog and with
\* a cart that earlier addToCart calls of user 1 have left (none, one line,
\* or two lines), and no orders.
InitCarts ==
    { {},
      {[id |-> 1, user |-> 1, item |-> 1, quantity |-> 1]},
      {[id |-> 1, user |-> 1, item |-> 1, quantity |-> 1],
       [id |-> 2, user |-> 1, item |-> 2, quantity |-> 2]} }

Registered(id, email, password) ==
    [id |-> id, email |-> email, password |-> Hash(password), permissions |-> {"USER"},
     resetToken |-> NULL, resetTokenExpiry |-> NULL]

ShopInit ==
    /\ users = <<Registered(1, <<97>>, "pw1"), Registered(2, <<98>>, "pw2")>>
    /\ items = InitItems
    /\ cartItems \in InitCarts
    /\ orders = {}
    /\ charges = {}
    /\ nextId = 3
    /\ now = 0
    /\ InitReqs

ShopNext ==
    \/ \E p \in Reqs : AddToCartQuery(p)
    \/ \E p \in Reqs : AddToCartUpdate(p)
    \/ \E p \in Reqs : AddToCartCreate(p)
    \/ \E p \in Reqs : CreateOrderQuery(p)
    \/ \E p \in Reqs : ChargeCaptured(p)
    \/ \E p \in Reqs : ChargeRejected(p)
    \/ \E p \in Reqs : CreateOrderPersist(p)
    \/ \E p \in Reqs : CreateOrderDelete(p)
    \/ \E p \in Reqs : StoreRejects(p)
    \/ Crash

ShopSpec == ShopInit /\ [][ShopNext]_vars

\* A user row on which a requestReset at time `issued` has left the token 1.
WithToken(user, issued) ==
    [user EXCEPT !.resetToken = 1, !.resetTokenExpiry = issued + RESET_EXPIRY_MS]

\* Accounts, at a fixed time of day: the store starts empty, or with the user
\* "a" that an earlier signup has left, or with that user and a reset token
\* that a requestReset has left on it just now or three hours ago.
AuthNow == 3 * TickMs
AuthInitUsers ==
    { <<>>,
      <<Registered(1, <<97>>, "pw1")>>,
      <<WithToken(Registered(1, <<97>>, "pw1"), AuthNow)>>,
      <<WithToken(Registered(1, <<97>>, "pw1"), 0)>> }

AuthInit ==
    /\ users \in AuthInitUsers
    /\ items = InitItems
    /\ cartItems = {}
    /\ orders = {}
    /\ charges = {}
    /\ nextId = 2
    /\ now = AuthNow
    /\ InitReqs

AuthNext ==
    \/ \E p \in Reqs : Signup(p)
    \/ \E p \in Reqs : SignupCreate(p)
    \/ \E p \in Reqs : Signin(p)
    \/ \E p \in Reqs : Signout(p)
    \/ \E p \in Reqs : RequestResetQuery(p)
    \/ \E p \in Reqs : RequestResetRandom(p)
    \/ \E p \in Reqs : RequestResetUpdate(p)
    \/ \E p \in Reqs : RequestResetMail(p)
    \/ \E p \in Reqs : MailRejects(p)
    \/ \E p \in Reqs : ResetPasswordQuery(p)
    \/ \E p \in Reqs : ResetPasswordUpdate(p)
    \/ \E p \in Reqs : StoreRejects(p)
    \/ Crash

AuthSpec == AuthInit /\ [][AuthNext]_vars

\* Password reset, with the clock running: the store starts with the user "a",
\* or with that user and the reset token a requestReset at time 0 has left.
ResetInitUsers ==
    { <<Registered(1, <<97>>, "pw1")>>,
      <<WithToken(Registered(1, <<97>>, "pw1"), 0)>> }

ResetInit ==
    /\ users \in ResetInitUsers
    /\ items = InitItems
    /\ cartItems = {}
    /\ orders = {}
    /\ charges = {}
    /\ nextId = 2
    /\ now = 0
    /\ InitReqs

ResetNext ==
    \/ \E p \in Reqs : RequestResetQuery(p)
    \/ \E p \in Reqs : RequestResetRandom(p)
    \/ \E p \in Reqs : RequestResetUpdate(p)
    \/ \E p \in Reqs : RequestResetMail(p)
    \/ \E p \in Reqs : MailRejects(p)
    \/ \E p \in Reqs : ResetPasswordQuery(p)
    \/ \E p \in Reqs : ResetPasswordUpdate(p)
    \/ \E p \in Reqs : StoreRejects(p)
    \/ Crash
    \/ Tick

ResetSpec == ResetInit /\ [][ResetNext]_vars

\* Permissions: the store starts with the user "a" that a signup has left and
\* a user "b" to whom the operator of the store has granted ADMIN or
\* PERMISSIONUPDATE (no resolver grants the first such permission).
Granted(user, permissions) == [user EXCEPT !.permissions = permissions]
PermInitUsers ==
    { <<Registered(1, <<97>>, "pw1"),
        Granted(Registered(2, <<98>>, "pw2"), {"USER", "ADMIN"})>>,
      <<Registered(1, <<97>>, "pw1"),
        Granted(Registered(2, <<98>>, "pw2"), {"USER", "PERMISSIONUPDATE"})>> }

PermInit ==
    /\ users \in PermInitUsers
    /\ items = InitItems
    /\ cartItems = {}
    /\ orders = {}
    /\ charges = {}
    /\ nextId = 2
    /\ now = 0
    /\ InitReqs

PermNext ==
    \/ \E p \in Reqs : Signup(p)
    \/ \E p \in Reqs : SignupCreate(p)
    \/ \E p \in Reqs : UpdatePermissionsQuery(p)
    \/ \E p \in Reqs : UpdatePermissionsUpdate(p)
    \/ \E p \in Reqs : StoreRejects(p)
    \/ Crash

PermSpec == PermInit /\ [][PermNext]_vars

\* The cart alone: addToCart and removeFromCart on the carts of the shop.
CartNext ==
    \/ \E p \in Reqs : AddToCartQuery(p)
    \/ \E p \in Reqs : AddToCartUpdate(p)
    \/ \E p \in Reqs : AddToCartCreate(p)
    \/ \E p \in Reqs : RemoveFromCartQuery(p)
    \/ \E p \in Reqs : RemoveFromCartDelete(p)
    \/ \E p \in Reqs : StoreRejects(p)
    \/ Crash

CartSpec == ShopInit /\ [][CartNext]_vars

\* The shop with its requests served one after another: a request is handed
\* over only when no other is in flight.
OneAtATime ==
    \A p \in Reqs : (pc[p] = "idle" /\ pc'[p] # "idle")
                    => \A q \in Reqs \ {p} : ~InFlight(q)

ShopSeqNext ==
    \/ \E p \in Reqs : AddToCartQuery(p) /\ OneAtATime
    \/ \E p \in Reqs : AddToCartUpdate(p) /\ OneAtATime
    \/ \E p \in Reqs : AddToCartCreate(p) /\ OneAtATime
    \/ \E p \in Reqs : CreateOrderQuery(p) /\ OneAtATime
    \/ \E p \in Reqs : ChargeCaptured(p) /\ OneAtATime
    \/ \E p \in Reqs : ChargeRejected(p) /\ OneAtATime
    \/ \E p \in Reqs : CreateOrderPersist(p) /\ OneAtATime
    \/ \E p \in Reqs : CreateOrderDelete(p) /\ OneAtATime
    \/ \E p \in Reqs : StoreRejects(p) /\ OneAtATime
    \/ Crash /\ OneAtATime

ShopSeqSpec == ShopInit /\ [][ShopSeqNext]_vars

\* The catalog under checkout: createOrder on the two-line cart of user 1
\* while Items are updated and deleted; user 2 has been granted ITEMDELETE.
CatalogInit ==
    /\ users = <<Registered(1, <<97>>, "pw1"),
                 Granted(Registered(2, <<98>>, "pw2"), {"USER", "ITEMDELETE"})>>
    /\ items = InitItems
    /\ cartItems = {[id |-> 1, user |-> 1, item |-> 1, quantity |-> 1],
                    [id |-> 2, user |-> 1, item |-> 2, quantity |-> 2]}
    /\ orders = {}
    /\ charges = {}
    /\ nextId = 3
    /\ now = 0
    /\ InitReqs

CatalogNext ==
    \/ \E p \in Reqs : CreateOrderQuery(p)
    \/ \E p \in Reqs : ChargeCaptured(p)
    \/ \E p \in Reqs : ChargeRejected(p)
    \/ \E p \in Reqs : CreateOrderPersist(p)
    \/ \E p \in Reqs : CreateOrderDelete(p)
    \/ \E p \in Reqs : UpdateItem(p)
    \/ \E p \in Reqs : DeleteItemQuery(p)
    \/ \E p \in Reqs : DeleteItemDelete(p)
    \/ \E p \in Reqs : StoreRejects(p)
    \/ Crash

CatalogSpec == CatalogInit /\ [][CatalogNext]_vars

\* ================================================================== claims
\* sum of price * quantity over the OrderItem snapshots of an order
RECURSIVE SnapshotSum(_)
SnapshotSum(snaps) ==
    IF snaps = <<>> THEN 0
    ELSE Head(snaps).price * Head(snaps).quantity + SnapshotSum(Tail(snaps))

CartOf(u) == {c \in cartItems : c.user = u}

\* C1: in every reachable state, every Order in the store carries the
\* identifier of a charge the gateway has captured: the charge succeeded
\* before the order was persisted, whatever failed or crashed.
C1_OrderOnlyAfterCharge ==
    \A o \in orders : \E c \in charges : c.id = o.charge

\* an order exists while another createOrder was abandoned by a crash
C1_Witness ==
    /\ orders # {}
    /\ \E p \in Reqs : op[p] = "createOrder" /\ pc[p] = "crashed"

\* C2: no step of createOrder up to and including the answer of the gateway
\* touches the orders or the cart items, and a rejected charge ends the
\* call with the payment error: no Order, cart as before the call.
C2_RejectionLeavesCartAndOrders ==
    [][\A p \in Reqs :
         (/\ op'[p] = "createOrder"
          /\ pc[p] \in {"idle", "co_charge"}
          /\ pc'[p] \notin {pc[p], "crashed"})
         => /\ orders' = orders
            /\ cartItems' = cartItems
            /\ (pc[p] = "co_charge" /\ pc'[p] = "failed")
                 => result'[p] = Thrown("PaymentError")]_vars

\* a checkout of a non-empty cart was rejected: the cart is there, no order is
C2_Witness ==
    \E p \in Reqs :
      /\ op[p] = "createOrder"
      /\ result[p] = Thrown("PaymentError")
      /\ CartOf(args[p].userId) # {}
      /\ orders = {}

\* C3: every Order's total is the amount the gateway reported for the charge
\* the Order names, also when that differs from the locally computed sum.
C3_TotalIsChargeAmount ==
    \A o \in orders : \E c \in charges : c.id = o.charge /\ o.total = c.amount

\* an order whose gateway-reported total differs from the sum of its lines
C3_Witness ==
    \E o \in orders : o.items # <<>> /\ o.total # SnapshotSum(o.items)

\* C4: a failure of the bulk delete after the Order was persisted is not
\* escalated: createOrder leaves the delete only by returning the Order.
C4_ClearFailureNotEscalated ==
    [][\A p \in Reqs :
         (pc[p] = "co_delete" /\ pc'[p] \notin {"co_delete", "crashed"})
         => (pc'[p] = "done" /\ result'[p] = Returned(local[p].order))]_vars

\* C5: a step of createOrder removes cart items only when its Order is in the
\* store, and a crash between persisting the Order and the delete leaves
\* that Order and the cart as they were.
C5_CartClearedOnlyAfterOrder ==
    [][\A p \in Reqs :
         (op[p] = "createOrder" /\ InFlight(p) /\ pc'[p] # pc[p])
         => /\ cartItems' # cartItems
                 => (pc[p] = "co_delete" /\ local[p].order \in orders)
            /\ (pc[p] = "co_delete" /\ pc'[p] = "crashed")
                 => (local[p].order \in orders' /\ cartItems' = cartItems)]_vars

\* a crashed checkout has left its order and the stale cart
C5_Witness ==
    \E p \in Reqs :
      /\ op[p] = "createOrder" /\ pc[p] = "crashed"
      /\ \A q \in Reqs \ {p} : op[q] # "createOrder"
      /\ \E o \in orders : o.user = args[p].userId /\ o.items # <<>>
      /\ CartOf(args[p].userId) # {}

\* C6: there is at most one CartItem row for each (user, item) pair.
C6_OneRowPerUserItem ==
    \A c1 \in cartItems, c2 \in cartItems :
      (c1.user = c2.user /\ c1.item = c2.item) => c1.id = c2.id

InvalidToken == Thrown("This token is either invalid or expired!")
StoreError == Thrown("StoreError")
HoldsToken(token) == {k \in 1..Len(users) : users[k].resetToken = token}

\* request q is handed a resetPassword with matching passwords in this step,
\* and the store answers its lookup
ResetPasswordCalled(q) ==
    /\ pc[q] = "idle" /\ op'[q] = "resetPassword"
    /\ args'[q].password = args'[q].confirmPassword
    /\ result'[q] # StoreError

\* C7: a resetPassword presenting a token that is on a user row, within the
\* hour after its issue, finds the user; its update replaces the password and
\* clears resetToken and resetTokenExpiry in one store mutation; and every
\* resetPassword called with that token after one has succeeded fails with
\* the invalid-or-expired error, leaving users and cookie unchanged.
C7_TokenSucceedsOnceThenFails ==
    [][\A q \in Reqs :
         /\ (/\ ResetPasswordCalled(q)
             /\ \E k \in HoldsToken(args'[q].resetToken) :
                  now <= users[k].resetTokenExpiry)
            => pc'[q] = "rp_update"
         /\ (pc[q] = "rp_update" /\ pc'[q] = "done")
            => \E k \in 1..Len(users) :
                 /\ users[k].email = local[q].user.email
                 /\ users' = [users EXCEPT ![k] =
                       [@ EXCEPT !.password = Hash(args[q].password),
                                 !.resetToken = NULL,
                                 !.resetTokenExpiry = NULL]]
                 /\ result'[q] = Returned(users'[k])
         /\ \A p \in Reqs :
              (/\ op[p] = "resetPassword" /\ pc[p] = "done"
               /\ ResetPasswordCalled(q)
               /\ args'[q].resetToken = args[p].resetToken)
              => /\ pc'[q] = "failed"
                 /\ result'[q] = InvalidToken
                 /\ users' = users
                 /\ cookie'[q] = NoCookie]_vars

\* one resetPassword with the token has succeeded, a later one with the same
\* token (at the same time of day) was rejected
C7_Witness ==
    \E p \in Reqs, q \in Reqs :
      /\ op[p] = "resetPassword" /\ pc[p] = "done"
      /\ op[q] = "resetPassword" /\ result[q] = InvalidToken
      /\ args[p].resetToken = args[q].resetToken
      /\ users[result[p].value.id].password = Hash(args[p].password)
      /\ now = 0

\* C8: a resetPassword presenting a token that is on a user row is accepted
\* when the token was issued at most one hour ago, and rejected as expired
\* when it was issued more than one hour ago.
C8_AcceptedWithinOneHourOnly ==
    [][\A q \in Reqs :
         (ResetPasswordCalled(q) /\ HoldsToken(args'[q].resetToken) # {})
         => LET k == Min(HoldsToken(args'[q].resetToken))
                issued == users[k].resetTokenExpiry - RESET_EXPIRY_MS
            IN IF now - issued <= 60 * 60 * 1000
                 THEN pc'[q] = "rp_update"
                 ELSE pc'[q] = "failed" /\ result'[q] = InvalidToken]_vars

\* C9: the token cookie is on a response only when the request was a signup,
\* signin or resetPassword that returned the user the cookie names; a signin
\* returns only the user of that email whose stored hash is the hash of the
\* presented password.
C9_CookieOnlyOnSuccess ==
    \A p \in Reqs :
      cookie[p].state = "set"
      => /\ pc[p] = "done"
         /\ op[p] \in {"signup", "signin", "resetPassword"}
         /\ cookie[p].userId = result[p].value.id
         /\ op[p] = "signin"
              => /\ result[p].value.email = args[p].email
                 /\ result[p].value.password = Hash(args[p].password)

\* a signin with a wrong password has failed and its response has no cookie
C9_Witness ==
    \E p \in Reqs :
      /\ op[p] = "signin"
      /\ result[p] = Thrown("Invalid Password!")
      /\ cookie[p] = NoCookie

\* C10: a signin called with the email and password of a completed signup
\* (the password not changed since) returns the user that signup created.
C10_SigninAfterSignupSucceeds ==
    [][\A p \in Reqs, q \in Reqs :
         (/\ op[p] = "signup" /\ pc[p] = "done"
          /\ users[result[p].value.id].password = Hash(args[p].password)
          /\ pc[q] = "idle" /\ op'[q] = "signin"
          /\ args'[q].email = args[p].email
          /\ args'[q].password = args[p].password
          /\ result'[q] # StoreError)
         => (pc'[q] = "done" /\ result'[q].value.id = result[p].value.id)]_vars

\* C11: every User row has a non-empty permission set.
C11_PermissionsNeverEmpty ==
    \A k \in 1..Len(users) : users[k].permissions # {}

\* request q is handed an updatePermissions in this step, and the store
\* answers its lookup
UpdatePermissionsCalled(q) ==
    /\ pc[q] = "idle" /\ op'[q] = "updatePermissions"
    /\ result'[q] # StoreError

\* C12: an updatePermissions called without a login, or by a user who has
\* neither ADMIN nor PERMISSIONUPDATE, fails at once (with the login error,
\* with the permission error) and leaves every user row unchanged.
C12_UpdatePermissionsGuarded ==
    [][\A q \in Reqs :
         UpdatePermissionsCalled(q)
         => /\ args'[q].userId = NoUser
                 => /\ result'[q] = Thrown("You must be logged in!")
                    /\ pc'[q] = "failed" /\ users' = users
            /\ (/\ args'[q].userId # NoUser
                /\ "ADMIN" \notin users[args'[q].userId].permissions
                /\ "PERMISSIONUPDATE" \notin users[args'[q].userId].permissions)
                 => /\ result'[q] = Thrown("You do not have sufficient permissions")
                    /\ pc'[q] = "failed" /\ users' = users]_vars

\* a user with USER alone asked for ADMIN on its own row and was refused
C12_Witness ==
    \E q \in Reqs :
      /\ op[q] = "updatePermissions"
      /\ result[q] = Thrown("You do not have sufficient permissions")
      /\ args[q].target = args[q].userId
      /\ args[q].permissions = {"ADMIN"}
      /\ users[args[q].target].permissions = {"USER"}

\* request q is handed a removeFromCart in this step, and the store answers
\* its lookup
RemoveFromCartCalled(q) ==
    /\ pc[q] = "idle" /\ op'[q] = "removeFromCart"
    /\ result'[q] # StoreError

\* C13: a removeFromCart on a cart item of another user (or without a login)
\* fails with the ownership error, on a cart item that does not exist with
\* the not-found error; either way the cart items stay as they are.
C13_RemoveFromCartGuarded ==
    [][\A q \in Reqs :
         RemoveFromCartCalled(q)
         => LET row == {c \in cartItems : c.id = args'[q].id}
            IN /\ (\E c \in row : c.user # args'[q].userId)
                    => /\ result'[q] = Thrown("Cheatin huhhhh")
                       /\ pc'[q] = "failed" /\ cartItems' = cartItems
               /\ row = {}
                    => /\ result'[q] = Thrown("No CartItem Found!")
                       /\ pc'[q] = "failed" /\ cartItems' = cartItems]_vars

\* user 2 asked to remove a cart item of user 1, was refused, and the item is there
C13_Witness ==
    \E q \in Reqs :
      /\ op[q] = "removeFromCart"
      /\ result[q] = Thrown("Cheatin huhhhh")
      /\ args[q].userId = 2
      /\ \E c \in cartItems : c.id = args[q].id /\ c.user = 1

RowsOf(rows, u, i) == {c \in rows : c.user = u /\ c.item = i}

\* C14: served without other requests in flight, a createOrder that returns
\* has stored and returns an Order of the user with one snapshot per line of
\* the user's cart, in order, each with that line's item fields and quantity,
\* and leaves the user's cart empty.
C14_OrderSnapshotsTheCart ==
    [][\A p \in Reqs :
         (pc[p] = "co_delete" /\ pc'[p] = "done")
         => LET u == args[p].userId
                cart == QueryUserCart(u)
                order == result'[p].value
            IN /\ order \in orders'
               /\ order.user = u
               /\ Len(order.items) = Len(cart)
               /\ \A k \in 1..Len(cart) :
                    /\ order.items[k].title = cart[k].item.title
                    /\ order.items[k].price = cart[k].item.price
                    /\ order.items[k].description = cart[k].item.description
                    /\ order.items[k].image = cart[k].item.image
                    /\ order.items[k].largeImage = cart[k].item.largeImage
                    /\ order.items[k].quantity = cart[k].quantity
                    /\ order.items[k].user = u
               /\ {c \in cartItems' : c.user = u} = {}]_vars

\* a checkout of the two-line cart has returned an order of two snapshots
C14_Witness ==
    \E p \in Reqs :
      /\ op[p] = "createOrder" /\ pc[p] = "done"
      /\ Len(result[p].value.items) = 2
      /\ result[p].value \in orders
      /\ CartOf(args[p].userId) = {}

\* C15: served one after another, an addToCart that returns leaves exactly
\* one row for its (user, item): of quantity 1 when there was none, of the
\* former quantity plus 1 when there was one; so n calls from no row give n.
C15_SequentialAddsCount ==
    [][\A p \in Reqs :
         (op[p] = "addToCart" /\ InFlight(p) /\ pc'[p] = "done")
         => LET before == RowsOf(cartItems, args[p].userId, args[p].id)
                after == RowsOf(cartItems', args[p].userId, args[p].id)
            IN /\ Cardinality(before) <= 1
               /\ Cardinality(after) = 1
               /\ \A c \in after :
                    /\ result'[p] = Returned(c)
                    /\ before = {} => c.quantity = 1
                    /\ \A b \in before : c.id = b.id /\ c.quantity = b.quantity + 1]_vars

\* two addToCart calls from no row: one row, created by the first, of quantity 2
C15_Witness ==
    \E c \in cartItems :
      /\ c.id >= 3 /\ c.quantity = 2
      /\ \A p \in Reqs : op[p] = "addToCart" /\ pc[p] = "done"
                         /\ args[p] = [userId |-> c.user, id |-> c.item]
      /\ RowsOf(cartItems, c.user, c.item) = {c}

\* the fields of an OrderItem snapshot: values only, no id of an Item or CartItem
SnapshotFields == {"title", "price", "description", "image", "largeImage",
                   "quantity", "user"}

\* C16: no step removes or changes a stored Order, no step of an updateItem
\* or deleteItem touches the orders at all, and every OrderItem snapshot
\* consists of the copied value fields alone (no identifier of an Item or
\* CartItem row).
C16_OrdersKeepTheirSnapshots ==
    [][/\ orders \subseteq orders'
       /\ \A p \in Reqs :
            (op'[p] \in {"updateItem", "deleteItem"} /\ pc'[p] # pc[p])
            => orders' = orders
       /\ \A o \in orders' : \A k \in 1..Len(o.items) :
            DOMAIN o.items[k] = SnapshotFields]_vars

\* the shoes were bought at price 2; the Item has since been repriced to 5 by
\* a completed updateItem and the order still says 2
C16_Witness ==
    \E o \in orders, p \in Reqs :
      /\ op[p] = "updateItem" /\ pc[p] = "done"
      /\ args[p].id = 1 /\ args[p].updates = [price |-> 5]
      /\ items[1].price = 5
      /\ o.items # <<>>
      /\ o.items[1].title = "shoes" /\ o.items[1].price = 2

\* C17: the update of an addToCart writes the quantity it has read plus 1,
\* whatever the row holds when the update is applied; so two calls that read
\* the same quantity q both write q + 1 (the witness: both have returned the
\* same row with the same quantity).
C17_UpdateWritesReadQuantityPlusOne ==
    [][\A p \in Reqs :
         (pc[p] = "ac_update" /\ pc'[p] = "done")
         => \E c \in cartItems' :
              /\ c.id = Head(local[p].found).id
              /\ c.quantity = Head(local[p].found).quantity + 1
              /\ result'[p] = Returned(c)]_vars

\* two addToCart calls on an existing row have both returned it with the same
\* quantity: one increment is lost
C17_Witness ==
    \E p \in Reqs, q \in Reqs :
      /\ p # q
      /\ op[p] = "addToCart" /\ pc[p] = "done"
      /\ op[q] = "addToCart" /\ pc[q] = "done"
      /\ result[p] = result[q]
      /\ result[p].value.quantity >= 2
      /\ result[p].value \in cartItems

\* C18: no two resetPassword calls presenting the same token both succeed.
C18_TokenSingleUse ==
    \A p \in Reqs, q \in Reqs :
      (/\ p # q
       /\ op[p] = "resetPassword" /\ pc[p] = "done"
       /\ op[q] = "resetPassword" /\ pc[q] = "done")
      => args[p].resetToken # args[q].resetToken

\* createOrder p has captured a charge and persisted its Order
OrderCreated(p) == op[p] = "createOrder" /\ pc[p] = "co_delete"

\* C19: no two createOrder calls have both captured a charge and created an
\* Order for the same cart rows.
C19_CartChargedOnce ==
    \A p \in Reqs, q \in Reqs :
      (p # q /\ OrderCreated(p) /\ OrderCreated(q))
      => local[p].cartItemIds \cap local[q].cartItemIds = {}

\* C20: every cart row the bulk delete of a createOrder removes has the
\* quantity that createOrder has read, ordered and charged.
C20_DeletedQuantityWasOrdered ==
    [][\A p \in Reqs :
         (pc[p] = "co_delete" /\ pc'[p] = "done")
         => \A c \in cartItems \ cartItems' :
              \E k \in 1..Len(local[p].cart) :
                /\ local[p].cart[k].id = c.id
                /\ local[p].cart[k].quantity = c.quantity]_vars

====
